---- MODULE Spec2Model ----
(***************************************************************************)
(* Ingestion run state machine of the trigger router                      *)
(* (perception_app/mcp_service/routers/trigger.py).                        *)
(*                                                                         *)
(* The document store is the collection ingestion_runs; each trigger      *)
(* request is one handler execution (the handler has no suspension point  *)
(* between its guard query and its document write); each background       *)
(* pipeline is a task whose steps interleave with other handlers, other   *)
(* pipelines and the passing of time.  Sources are anonymous: the fetch   *)
(* phase is kept as counts of sources per fetch state.                     *)
(*                                                                         *)
(* The store_articles handler of the storage router (routers/storage.py)  *)
(* is modelled on its own, against the collection articles: one call at a *)
(* time, each batch commit a step.                                         *)
(***************************************************************************)
EXTENDS Integers, Sequences, FiniteSets, TLC

\* ---- bounds of the model ----
MaxRuns == 2
MaxTime == 600
FetchSpecExtra == 1
ChunkSpecExtra == 1
MaxStoreCalls == 2
BigRequestExtra == 1

\* ---- program constants ----
StaleThreshold == 600
SemaphoreLimit == 10
StoreBatchSize == 200
ErrorCap == 50
MaxSuccessDuration == 300
StorageBatchSize == 500

RunIds == 1..MaxRuns
\* the clock advances in steps of half the staleness threshold
TickStep == StaleThreshold \div 2
\* article counts one fetch_rss_feed response may carry
ArticleChoices == {0, 1}
\* sizes of the source catalog that load_sources may return: the smallest
\* catalogs where runs interleave, one larger than the semaphore where a
\* single run is followed through its fetch phase
SourceChoices == {0, 1}
FetchSourceChoices == {1, SemaphoreLimit + FetchSpecExtra}
\* one source whose feed fills more store chunks than the error cap
ChunkSourceChoices == {1}
ChunkArticleChoices == {0, StoreBatchSize * (ErrorCap + ChunkSpecExtra)}

ActiveStatuses == {"accepted", "running"}
TerminalStatuses == {"completed", "completed_with_errors", "failed"}

Min(a, b) == IF a < b THEN a ELSE b

\* ---- run documents ----
StatKeys == {"sourcesChecked", "sourcesFailed", "articlesFetched",
             "articlesStored", "articlesIngested", "authorsUpserted"}

\* a stats map: the keys present and the value of each counter (0 when absent)
MkStats(keys, checked, failed, fetched, stored, upserted) ==
    [has |-> keys, sourcesChecked |-> checked, sourcesFailed |-> failed,
     articlesFetched |-> fetched, articlesStored |-> stored,
     authorsUpserted |-> upserted]

EmptyStats == MkStats({}, 0, 0, 0, 0, 0)

\* the body of POST /ingestion; the fields have defaults
NoRequest == [trigger |-> "none", time_window_hours |-> 0, max_items_per_source |-> 0]
DefaultRequest == [trigger |-> "manual", time_window_hours |-> 24, max_items_per_source |-> 50]
RequestChoices == {DefaultRequest}

\* startedAtKind: "timestamp" for a value with a timestamp() method, "other"
\* for another truthy value, "null" for a null field, "absent" for no field
NoDoc ==
    [exists |-> FALSE, status |-> "none", phase |-> "none", startedAt |-> 0,
     startedAtKind |-> "absent", request |-> NoRequest,
     hasCompletedAt |-> FALSE,
     hasDuration |-> FALSE, duration |-> 0,
     completedAtWrites |-> 0, durationWrites |-> 0,
     stats |-> EmptyStats, errors |-> <<>>]

\* mutant: the run document created already running
InitialDoc_running(t, request) ==
    [exists |-> TRUE, status |-> "running", phase |-> "loading_sources",
     startedAt |-> t, startedAtKind |-> "timestamp", request |-> request,
     hasCompletedAt |-> FALSE,
     hasDuration |-> FALSE, duration |-> 0,
     completedAtWrites |-> 0, durationWrites |-> 0,
     stats |-> EmptyStats, errors |-> <<>>]

\* the document trigger_ingestion creates
InitialDoc(t, request) ==
    [exists |-> TRUE, status |-> "accepted", phase |-> "initializing",
     startedAt |-> t, startedAtKind |-> "timestamp", request |-> request,
     hasCompletedAt |-> FALSE,
     hasDuration |-> FALSE, duration |-> 0,
     completedAtWrites |-> 0, durationWrites |-> 0,
     stats |-> EmptyStats, errors |-> <<>>]

\* ---- pipeline task locals ----
NoPipe ==
    [pc |-> "none", start_time |-> 0, sources |-> 0,
     waiting |-> 0, inflight |-> 0, okResults |-> 0, errResults |-> 0,
     feeds |-> 0, returned |-> 0,
     sources_failed |-> 0, total_fetched |-> 0, errors |-> <<>>,
     i |-> 0, chunks |-> 0, articles_stored |-> 0, feedsLeft |-> 0,
     authors_upserted |-> 0]

\* the response of the last POST /ingestion; seq tells two requests apart
NoResp == [seq |-> 0, code |-> 0, run_id |-> 0, status |-> "none",
           poll_url |-> [prefix |-> "", id |-> 0]]

VARIABLES now, docs, pipe, nextId, lastResp, evalIn, evalOut, articles, store,
          authors, upsert, imported, statusResp, logResp

vars == <<now, docs, pipe, nextId, lastResp, evalIn, evalOut, articles, store,
          authors, upsert, imported, statusResp, logResp>>

\* the authors collection and the callers of the tools around the pipeline
toolVars == <<authors, upsert, imported, statusResp, logResp>>

\* ---- evaluate_run_success ----
\* the fields of a run document that evaluate_run_success reads
RunData(hasStats, stats, hasDuration, duration) ==
    [hasStats |-> hasStats, stats |-> stats, hasDuration |-> hasDuration,
     duration |-> duration]

NoEval == RunData(FALSE, EmptyStats, FALSE, 0)

\* stats.get(key, 0)
StatGet(stats, key) == IF key \in stats.has THEN stats[key] ELSE 0

\* mutant: the comparison made strict, so exactly 50% passes
ErrorRateTooHigh_strict(sources_failed, sources_checked) ==
    2 * sources_failed > sources_checked

\* (sources_failed / sources_checked) >= 0.5, for sources_checked > 0
ErrorRateTooHigh(sources_failed, sources_checked) ==
    2 * sources_failed >= sources_checked

evaluate_run_success(run_data) ==
    LET stats == IF run_data.hasStats THEN run_data.stats ELSE EmptyStats
        articles_stored == StatGet(stats, "articlesStored")
        sources_checked == StatGet(stats, "sourcesChecked")
        sources_failed == StatGet(stats, "sourcesFailed")
        duration == IF run_data.hasDuration THEN run_data.duration ELSE 0
    IN  IF articles_stored <= 0 THEN FALSE
        ELSE IF sources_checked > 0 /\ ErrorRateTooHigh(sources_failed, sources_checked)
             THEN FALSE
        ELSE IF duration # 0 /\ duration > MaxSuccessDuration THEN FALSE
        ELSE TRUE

\* ---- check_active_run ----
ActiveRuns(d) == {r \in RunIds : d[r].exists /\ d[r].status \in ActiveStatuses}

\* order_by startedAt descending, limit 1: the candidates for the single
\* document the query returns
\* the place of a document in the order by startedAt: null first, then
\* timestamps by value, then values of other types
OrderKey(doc) ==
    CASE doc.startedAtKind = "null" -> 0 - 1
      [] doc.startedAtKind = "timestamp" -> doc.startedAt
      [] OTHER -> MaxTime + 1

\* the documents the query can return: ordering by startedAt leaves out the
\* documents without the field
Queried(d) == {r \in ActiveRuns(d) : d[r].startedAtKind # "absent"}

NewestActive(d) ==
    {r \in Queried(d) : \A q \in Queried(d) : OrderKey(d[q]) <= OrderKey(d[r])}

\* age_seconds of the document the query returned, at time t; 601 for a value
\* without a timestamp
AgeSeconds(doc, t) ==
    IF doc.startedAtKind = "timestamp" THEN t - doc.startedAt ELSE StaleThreshold + 1

\* mutants: the threshold read in minutes; the comparison made inclusive
IsFresh_minutes(age_seconds) == age_seconds < StaleThreshold \div 60
IsFresh_inclusive(age_seconds) == age_seconds <= StaleThreshold

IsFresh(age_seconds) == age_seconds < StaleThreshold

StaleDoc(doc) ==
    [doc EXCEPT !.status = "failed", !.phase = "stale_cleanup",
                !.hasCompletedAt = TRUE,
                !.completedAtWrites = @ + 1,
                !.errors = <<"stale">>]

\* f"/trigger/ingestion/{run_id}": the fixed prefix followed by the id
PollUrl(run_id) == [prefix |-> "/trigger/ingestion/", id |-> run_id]

Accept(d) ==
    /\ \E request \in RequestChoices :
          docs' = [d EXCEPT ![nextId] = InitialDoc(now, request)]
    /\ pipe' = [pipe EXCEPT ![nextId] = [NoPipe EXCEPT !.pc = "created"]]
    /\ lastResp' = [seq |-> 1 - lastResp.seq, code |-> 202, run_id |-> nextId, status |-> "accepted",
                    poll_url |-> PollUrl(nextId)]
    /\ nextId' = nextId + 1

Reject(active_run_id) ==
    /\ lastResp' = [seq |-> 1 - lastResp.seq, code |-> 409, run_id |-> active_run_id, status |-> "none",
                    poll_url |-> PollUrl(active_run_id)]
    /\ UNCHANGED <<docs, pipe, nextId>>

\* POST /ingestion; run_limit bounds the number of run ids the model hands out
trigger_ingestion(run_limit) ==
    /\ nextId <= run_limit
    /\ IF NewestActive(docs) = {}
       THEN Accept(docs)
       ELSE \E r \in NewestActive(docs) :
              IF docs[r].startedAtKind = "null"
              THEN \* if started_at: is false; the loop ends, None is returned
                   Accept(docs)
              ELSE IF IsFresh(AgeSeconds(docs[r], now))
              THEN Reject(r)
              ELSE Accept([docs EXCEPT ![r] = StaleDoc(docs[r])])
    /\ UNCHANGED <<now, evalIn, evalOut, articles, store, toolVars>>

\* ---- run_ingestion_pipeline ----
Repeat(x, n) == [k \in 1..n |-> x]

\* mutant: any run that stored nothing fails, errors or not
FinalStatus_stored_only(errors, articles_stored) ==
    IF articles_stored = 0 THEN "failed"
    ELSE IF errors # <<>> THEN "completed_with_errors"
    ELSE "completed"

\* final_status of the final update
FinalStatus(errors, articles_stored) ==
    IF errors # <<>> /\ articles_stored = 0 THEN "failed"
    ELSE IF errors # <<>> THEN "completed_with_errors"
    ELSE "completed"

\* mutant: the whole error list persisted
CapErrors_uncapped(errors) == errors

\* errors[:50]
CapErrors(errors) == SubSeq(errors, 1, Min(Len(errors), ErrorCap))

\* mutant: the join returns once every fetch has started
AllFetched_started(p) == p.pc = "fetching" /\ p.waiting = 0

\* every fetch task that gather awaits has returned
AllFetched(p) == p.pc = "fetching" /\ p.waiting = 0 /\ p.inflight = 0

\* the store loop is over: nothing to store, all chunks sent, or abandoned
StoreLoopOver(p) == p.pc = "storing" /\ p.i >= p.total_fetched

\* mutant: the task goes on to its final write only after an author was upserted
UpsertLoopOver_needs_author(p) ==
    p.pc = "upserting" /\ p.feedsLeft = 0 /\ p.authors_upserted > 0

UpsertLoopOver(p) == p.pc = "upserting" /\ p.feedsLeft = 0

\* the task is about to write to its run document
AtWrite(p) ==
    \/ p.pc \in {"created", "loading"}
    \/ AllFetched(p)
    \/ StoreLoopOver(p)
    \/ UpsertLoopOver(p)

Unchanged_env == UNCHANGED <<now, nextId, lastResp, evalIn, evalOut, articles, store, toolVars>>

\* doc_ref.update({"status": "running", "phase": "loading_sources"})
pipeline_start(r) ==
    /\ pipe[r].pc = "created"
    /\ docs' = [docs EXCEPT ![r].status = "running", ![r].phase = "loading_sources"]
    /\ pipe' = [pipe EXCEPT ![r].pc = "loading", ![r].start_time = now]
    /\ Unchanged_env

\* mutant: the empty-catalog branch without its return
pipeline_load_sources_no_return(r, source_choices) ==
    /\ pipe[r].pc = "loading"
    /\ \E n \in source_choices :
         /\ docs' = [docs EXCEPT ![r].status = IF n = 0 THEN "failed" ELSE @,
                                 ![r].phase = "fetching_feeds",
                                 ![r].hasCompletedAt = IF n = 0 THEN TRUE ELSE @,
                                 ![r].hasDuration = IF n = 0 THEN TRUE ELSE @,
                                 ![r].duration = IF n = 0 THEN now - pipe[r].start_time ELSE @,
                                 ![r].completedAtWrites = IF n = 0 THEN @ + 1 ELSE @,
                                 ![r].durationWrites = IF n = 0 THEN @ + 1 ELSE @,
                                 ![r].errors = IF n = 0 THEN <<"no_sources">> ELSE @,
                                 ![r].stats = MkStats({"sourcesChecked", "sourcesFailed",
                                                       "articlesFetched"}, n, 0, 0, 0, 0)]
         /\ pipe' = [pipe EXCEPT ![r].pc = "fetching", ![r].sources = n,
                                 ![r].waiting = n]
    /\ Unchanged_env

\* load_sources() and the write that follows it
pipeline_load_sources(r, source_choices) ==
    /\ pipe[r].pc = "loading"
    /\ \E n \in source_choices :
         IF n = 0
         THEN /\ docs' = [docs EXCEPT ![r].status = "failed",
                                      ![r].phase = "loading_sources",
                                      ![r].hasCompletedAt = TRUE,
                                      ![r].hasDuration = TRUE,
                                      ![r].duration = now - pipe[r].start_time,
                                      ![r].completedAtWrites = @ + 1,
                                      ![r].durationWrites = @ + 1,
                                      ![r].errors = <<"no_sources">>]
              /\ pipe' = [pipe EXCEPT ![r] = [NoPipe EXCEPT !.pc = "finished"]]
         ELSE /\ docs' = [docs EXCEPT ![r].phase = "fetching_feeds",
                                      ![r].stats = MkStats({"sourcesChecked", "sourcesFailed",
                                                            "articlesFetched"}, n, 0, 0, 0, 0)]
              /\ pipe' = [pipe EXCEPT ![r].pc = "fetching", ![r].sources = n,
                                      ![r].waiting = n]
    /\ Unchanged_env

\* mutant: one fetch too many admitted
SemaphoreFree_off_by_one(inflight) == inflight <= SemaphoreLimit

\* the semaphore admits a fetch while fewer than its limit hold it
SemaphoreFree(inflight) == inflight < SemaphoreLimit

\* fetch_with_semaphore: async with semaphore, then fetch_single_feed starts
fetch_acquire(r) ==
    /\ pipe[r].pc = "fetching"
    /\ pipe[r].waiting > 0
    /\ SemaphoreFree(pipe[r].inflight)
    /\ pipe' = [pipe EXCEPT ![r].waiting = @ - 1, ![r].inflight = @ + 1]
    /\ UNCHANGED docs
    /\ Unchanged_env

\* fetch_single_feed returns: a response with articles, or the error result
fetch_return(r, article_choices) ==
    /\ pipe[r].pc = "fetching"
    /\ pipe[r].inflight > 0
    /\ \/ \E a \in article_choices :
            pipe' = [pipe EXCEPT ![r].inflight = @ - 1, ![r].okResults = @ + 1,
                                 ![r].returned = @ + a,
                                 ![r].feeds = @ + (IF a > 0 THEN 1 ELSE 0)]
       \/ pipe' = [pipe EXCEPT ![r].inflight = @ - 1, ![r].errResults = @ + 1]
    /\ UNCHANGED docs
    /\ Unchanged_env

\* mutant: a failed result not counted when the catalog has other results
SourcesFailed_missed(p) == IF p.okResults > 0 THEN 0 ELSE p.errResults

\* the loop over the gathered results
SourcesFailed(p) == p.errResults
FetchErrors(p) == Repeat("fetch", p.errResults)
TotalFetched(p) == p.returned

\* gather has returned: aggregate the results, write phase storing_articles
pipeline_aggregate(r) ==
    /\ AllFetched(pipe[r])
    /\ pipe' = [pipe EXCEPT ![r].pc = "storing",
                            ![r].sources_failed = SourcesFailed(pipe[r]),
                            ![r].errors = FetchErrors(pipe[r]),
                            ![r].total_fetched = TotalFetched(pipe[r]),
                            ![r].i = 0, ![r].articles_stored = 0]
    /\ docs' = [docs EXCEPT ![r].phase = "storing_articles",
                            ![r].stats = MkStats({"sourcesChecked", "sourcesFailed",
                                                  "articlesFetched", "articlesStored"},
                                                 pipe[r].sources, SourcesFailed(pipe[r]),
                                                 TotalFetched(pipe[r]), 0, 0)]
    /\ Unchanged_env

\* one store_articles call of the chunk loop
store_chunk(r) ==
    /\ pipe[r].pc = "storing"
    /\ pipe[r].i < pipe[r].total_fetched
    /\ LET chunk == Min(StoreBatchSize, pipe[r].total_fetched - pipe[r].i)
       IN \/ \E stored_count \in {0, chunk} :
               pipe' = [pipe EXCEPT ![r].articles_stored = @ + stored_count,
                                    ![r].i = @ + StoreBatchSize,
                                    ![r].chunks = @ + 1]
          \/ pipe' = [pipe EXCEPT ![r].errors = Append(@, "store_status"),
                                  ![r].i = @ + StoreBatchSize,
                                  ![r].chunks = @ + 1]
          \/ \* the call raises: the except clause encloses the whole loop
             pipe' = [pipe EXCEPT ![r].errors = Append(@, "store_failed"),
                                  ![r].i = pipe[r].total_fetched,
                                  ![r].chunks = @ + 1]
    /\ UNCHANGED docs
    /\ Unchanged_env

\* mutant: the phase of the previous write written again
pipeline_store_done_rewind(r) ==
    /\ StoreLoopOver(pipe[r])
    /\ pipe' = [pipe EXCEPT ![r].pc = "upserting", ![r].feedsLeft = pipe[r].feeds,
                            ![r].authors_upserted = 0]
    /\ docs' = [docs EXCEPT ![r].phase = "fetching_feeds"]
    /\ Unchanged_env

\* the write of phase upserting_authors, after the store loop
pipeline_store_done(r) ==
    /\ StoreLoopOver(pipe[r])
    /\ pipe' = [pipe EXCEPT ![r].pc = "upserting", ![r].feedsLeft = pipe[r].feeds,
                            ![r].authors_upserted = 0]
    /\ docs' = [docs EXCEPT ![r].phase = "upserting_authors",
                            ![r].stats = MkStats({"sourcesChecked", "sourcesFailed",
                                                  "articlesFetched", "articlesStored",
                                                  "authorsUpserted"},
                                                 pipe[r].sources, pipe[r].sources_failed,
                                                 pipe[r].total_fetched,
                                                 pipe[r].articles_stored, 0)]
    /\ Unchanged_env

\* one upsert_author call, for one feed group that has articles
upsert_author_call(r) ==
    /\ pipe[r].pc = "upserting"
    /\ pipe[r].feedsLeft > 0
    /\ \/ pipe' = [pipe EXCEPT ![r].feedsLeft = @ - 1, ![r].authors_upserted = @ + 1]
       \/ pipe' = [pipe EXCEPT ![r].feedsLeft = @ - 1]
       \/ pipe' = [pipe EXCEPT ![r].feedsLeft = @ - 1,
                               ![r].errors = Append(@, "upsert_failed")]
    /\ UNCHANGED docs
    /\ Unchanged_env

\* the final update
pipeline_final(r) ==
    /\ UpsertLoopOver(pipe[r])
    /\ pipe' = [pipe EXCEPT ![r] = [NoPipe EXCEPT !.pc = "finished"]]
    /\ docs' = [docs EXCEPT ![r].status = FinalStatus(pipe[r].errors, pipe[r].articles_stored),
                            ![r].phase = "done",
                            ![r].hasCompletedAt = TRUE,
                            ![r].hasDuration = TRUE,
                            ![r].duration = now - pipe[r].start_time,
                            ![r].completedAtWrites = @ + 1,
                            ![r].durationWrites = @ + 1,
                            ![r].stats = MkStats(StatKeys,
                                                 pipe[r].sources, pipe[r].sources_failed,
                                                 pipe[r].total_fetched,
                                                 pipe[r].articles_stored,
                                                 pipe[r].authors_upserted),
                            ![r].errors = CapErrors(pipe[r].errors)]
    /\ Unchanged_env

\* a write to the run document raises: control passes to the except clause
pipeline_raise(r) ==
    /\ AtWrite(pipe[r])
    /\ pipe' = [pipe EXCEPT ![r] = [NoPipe EXCEPT !.pc = "except",
                                                  !.start_time = pipe[r].start_time]]
    /\ UNCHANGED docs
    /\ Unchanged_env

\* mutant: the failure write outside a try, its exception ending the task
pipeline_except_unguarded(r) ==
    /\ pipe[r].pc = "except"
    /\ \/ /\ docs' = [docs EXCEPT ![r].status = "failed",
                                  ![r].hasCompletedAt = TRUE,
                                  ![r].hasDuration = TRUE,
                                  ![r].duration = now - pipe[r].start_time,
                                  ![r].completedAtWrites = @ + 1,
                                  ![r].durationWrites = @ + 1,
                                  ![r].errors = <<"pipeline_exception">>]
          /\ pipe' = [pipe EXCEPT ![r] = [NoPipe EXCEPT !.pc = "finished"]]
       \/ /\ UNCHANGED docs
          /\ pipe' = [pipe EXCEPT ![r] = [NoPipe EXCEPT !.pc = "crashed"]]
    /\ Unchanged_env

\* except Exception: the best-effort failure write, itself allowed to fail
pipeline_except(r) ==
    /\ pipe[r].pc = "except"
    /\ pipe' = [pipe EXCEPT ![r] = [NoPipe EXCEPT !.pc = "finished"]]
    /\ \/ docs' = [docs EXCEPT ![r].status = "failed",
                               ![r].hasCompletedAt = TRUE,
                               ![r].hasDuration = TRUE,
                               ![r].duration = now - pipe[r].start_time,
                               ![r].completedAtWrites = @ + 1,
                               ![r].durationWrites = @ + 1,
                               ![r].errors = <<"pipeline_exception">>]
       \/ UNCHANGED docs
    /\ Unchanged_env

run_ingestion_pipeline(r, source_choices, article_choices) ==
    \/ pipeline_start(r)
    \/ pipeline_load_sources(r, source_choices)
    \/ fetch_acquire(r)
    \/ fetch_return(r, article_choices)
    \/ pipeline_aggregate(r)
    \/ store_chunk(r)
    \/ pipeline_store_done(r)
    \/ upsert_author_call(r)
    \/ pipeline_final(r)
    \/ pipeline_raise(r)
    \/ pipeline_except(r)

\* ---- store_articles (storage router) ----
\* the empty string as a URL; other URLs are positive numbers
EmptyUrl == 0

StoreRunIds == {"run-1", "run-2"}

\* an article of a request: summary stands for the optional fields ("None"
\* when not given); unwritable marks an article for which building or queueing
\* the document raises
Article(url, title, summary, unwritable) ==
    [url |-> url, title |-> title, summary |-> summary, unwritable |-> unwritable]

ArticleVariants ==
    {[title |-> "t1", summary |-> "s1", unwritable |-> FALSE],
     [title |-> "t2", summary |-> "None", unwritable |-> FALSE],
     [title |-> "t2", summary |-> "s1", unwritable |-> TRUE]}

SmallArticles ==
    {Article(EmptyUrl, "t1", "None", FALSE), Article(2, "t1", "s1", FALSE)}
       \cup {Article(1, v.title, v.summary, v.unwritable) : v \in ArticleVariants}

\* URLs [a,a,b,c,c,c]; the first occurrence of each URL carries title t1
ExampleRequest ==
    <<Article(1, "t1", "s1", FALSE), Article(1, "t2", "None", FALSE),
      Article(2, "t1", "s1", FALSE),
      Article(3, "t1", "s1", FALSE), Article(3, "t2", "None", FALSE),
      Article(3, "t2", "s1", FALSE)>>

\* more distinct URLs than one batch holds
BigRequest ==
    [k \in 1..(StorageBatchSize + BigRequestExtra) |-> Article(k, "t1", "None", FALSE)]

StoreRequests ==
    {<<>>} \cup {<<a>> : a \in SmallArticles}
           \cup {<<a, b>> : a \in SmallArticles, b \in SmallArticles}
           \cup {ExampleRequest, BigRequest}

\* sha256(url).hexdigest()[:16]: a deterministic function of the URL alone;
\* distinct URLs of the model have distinct digests
UrlHash(url) == url

\* f"art-{url_hash}"
DocId(url) == [prefix |-> "art-", hash |-> UrlHash(url)]

\* the articles collection: a function from document ids to documents
NoArticles == [id \in {} |-> 0]

NoStoreResp ==
    [run_id |-> "none", stored_count |-> 0, failed_count |-> 0, failed_urls |-> <<>>,
     firestore_writes |-> 0, duplicates_skipped |-> 0, batch_count |-> 0,
     error |-> FALSE]

\* the handler's locals and the response of the last call
NoStore ==
    [pc |-> "idle", calls |-> 0, run_id |-> "none", request |-> <<>>,
     unique_articles |-> <<>>, i |-> 0, stored_count |-> 0, failed_count |-> 0,
     failed_urls |-> <<>>, resp |-> NoStoreResp]

\* seen_urls when the deduplication loop reaches position k: the non-empty
\* URLs of the articles before it
SeenUrls(request_articles, k) ==
    {request_articles[j].url : j \in 1..(k - 1)} \ {EmptyUrl}

\* the deduplication loop: an article is kept when its URL is not empty and
\* not in seen_urls
Dedup(request_articles) ==
    LET positions == [k \in DOMAIN request_articles |-> k]
        kept == SelectSeq(positions,
                          LAMBDA k : /\ request_articles[k].url # EmptyUrl
                                     /\ request_articles[k].url
                                           \notin SeenUrls(request_articles, k))
    IN  [n \in DOMAIN kept |-> request_articles[kept[n]]]

\* each request with the outcome of its deduplication loop
DedupedRequests ==
    {[articles |-> request, unique_articles |-> Dedup(request)] : request \in StoreRequests}

\* doc_data with the None values removed; stored_at is the time of the call
DocData(article, run_id, stored_at) ==
    [title |-> article.title, url |-> article.url, summary |-> article.summary,
     stored_at |-> stored_at, run_id |-> run_id]

\* mutant: set without merge, the document replaced as a whole
MergeSet_replace(coll, id, doc_data) == doc_data

\* set(doc_data, merge=True): the fields given replace the stored ones, the
\* fields not given stay
MergeSet(coll, id, doc_data) ==
    IF id \in DOMAIN coll /\ doc_data.summary = "None"
    THEN [doc_data EXCEPT !.summary = coll[id].summary]
    ELSE doc_data

\* the sets queued for batch[lo..hi]: for each article that could be queued,
\* its document after the set; a later set of the same document wins
RECURSIVE QueuedSets(_, _, _, _, _, _)
QueuedSets(coll, batch, lo, hi, run_id, stored_at) ==
    IF lo > hi THEN NoArticles
    ELSE IF lo = hi
         THEN IF batch[lo].unwritable THEN NoArticles
              ELSE DocId(batch[lo].url) :>
                      MergeSet(coll, DocId(batch[lo].url),
                               DocData(batch[lo], run_id, stored_at))
    ELSE QueuedSets(coll, batch, (lo + hi) \div 2 + 1, hi, run_id, stored_at)
            @@ QueuedSets(coll, batch, lo, (lo + hi) \div 2, run_id, stored_at)

\* batch.commit(): the queued sets applied to the collection
CommitBatch(coll, batch, run_id, stored_at) ==
    QueuedSets(coll, batch, 1, Len(batch), run_id, stored_at) @@ coll

\* the urls of the articles of a batch that could not be queued
FailedUrls(batch) ==
    LET failed == SelectSeq(batch, LAMBDA a : a.unwritable)
    IN  [k \in DOMAIN failed |-> failed[k].url]

Unchanged_run == UNCHANGED <<now, docs, pipe, nextId, lastResp, evalIn, evalOut, toolVars>>

\* the request arrives; the deduplication loop
store_articles_begin ==
    /\ store.pc = "idle"
    /\ store.calls < MaxStoreCalls
    /\ \E run_id \in StoreRunIds, q \in DedupedRequests :
         store' = [NoStore EXCEPT !.pc = "batches", !.calls = store.calls + 1,
                                  !.run_id = run_id, !.request = q.articles,
                                  !.unique_articles = q.unique_articles,
                                  !.resp = store.resp]
    /\ UNCHANGED articles
    /\ Unchanged_run

\* one batch: its articles queued one by one, then committed
store_articles_batch ==
    /\ store.pc = "batches"
    /\ store.i < Len(store.unique_articles)
    /\ LET batch == SubSeq(store.unique_articles, store.i + 1,
                           Min(store.i + StorageBatchSize, Len(store.unique_articles)))
           failed_urls == FailedUrls(batch)
       IN  /\ articles' = CommitBatch(articles, batch, store.run_id, store.calls)
           /\ store' = [store EXCEPT !.i = @ + StorageBatchSize,
                                     !.stored_count = @ + Len(batch) - Len(failed_urls),
                                     !.failed_count = @ + Len(failed_urls),
                                     !.failed_urls = @ \o failed_urls]
    /\ Unchanged_run

\* the store client or a batch commit raises: the outer except clause answers
\* with the total-failure result
store_articles_raise ==
    /\ store.pc = "batches"
    /\ store.i = 0 \/ store.i < Len(store.unique_articles)
    /\ store' = [NoStore EXCEPT
                   !.calls = store.calls,
                   !.resp = [run_id |-> store.run_id, stored_count |-> 0,
                             failed_count |-> Len(store.request),
                             failed_urls |-> [k \in DOMAIN store.request |->
                                                 store.request[k].url],
                             firestore_writes |-> 0, duplicates_skipped |-> 0,
                             batch_count |-> 0, error |-> TRUE]]
    /\ UNCHANGED articles
    /\ Unchanged_run

\* every batch committed: the response
store_articles_return ==
    /\ store.pc = "batches"
    /\ store.i >= Len(store.unique_articles)
    /\ store' = [NoStore EXCEPT
                   !.calls = store.calls,
                   !.resp = [run_id |-> store.run_id,
                             stored_count |-> store.stored_count,
                             failed_count |-> store.failed_count,
                             failed_urls |-> store.failed_urls,
                             firestore_writes |-> store.stored_count,
                             duplicates_skipped |->
                                 Len(store.request) - Len(store.unique_articles),
                             batch_count |->
                                 (Len(store.unique_articles) + StorageBatchSize - 1)
                                    \div StorageBatchSize,
                             error |-> FALSE]]
    /\ UNCHANGED articles
    /\ Unchanged_run

store_articles ==
    \/ store_articles_begin
    \/ store_articles_batch
    \/ store_articles_raise
    \/ store_articles_return

\* ---- the passing of time ----
\* time is counted from the first request on
\* ---- upsert_author and the feed import tool on one author record ----
MaxUpsertCalls == 3
MaxImports == 1

\* both tools derive the key of the record from the feed URL the same way
AuthorId == "author-1"

\* the articles of a request: how many, and the categories they carry
Batch(n, cats) == [n |-> n, cats |-> cats]
UpsertBatches ==
    {Batch(0, {}), Batch(5, {"ai"}), Batch(3, {"ml", ""}), Batch(1, {})}

\* the categories column of the imported CSV row
ImportCategories == {{"tech"}, {"ai", "ml"}}

NoAuthor == [exists |-> FALSE, articleCount |-> 0, categories |-> {}]
NoUpsertResp == [status |-> "none", author_id |-> "none"]
NoUpsert ==
    [pc |-> "idle", calls |-> 0, request |-> Batch(0, {}),
     existed |-> FALSE, existing_count |-> 0, resp |-> NoUpsertResp]

\* categories collected from the articles; falsy ones are skipped
Categories(request) == {cat \in request.cats : cat # ""}

\* mutant: every written record is reported as created
UpsertStatus_created(existed) == "created"

\* the status decided by the document read
UpsertStatus(existed) == IF existed THEN "updated" ELSE "created"

\* set(update_data, merge=True): articleCount is always in update_data,
\* categories only when the batch has some
UpsertSet(author, request, existed, existing_count) ==
    [exists |-> TRUE,
     articleCount |-> IF existed THEN existing_count + request.n ELSE request.n,
     categories |-> IF Categories(request) # {} THEN Categories(request)
                    ELSE author.categories]

Unchanged_pipeline ==
    UNCHANGED <<now, docs, pipe, nextId, lastResp, evalIn, evalOut, articles, store>>

\* the handler up to and including doc_ref.get()
upsert_author_get ==
    /\ upsert.pc \in {"idle", "returned"}
    /\ upsert.calls < MaxUpsertCalls
    /\ \E request \in UpsertBatches :
          \/ /\ request.n = 0
             /\ upsert' = [upsert EXCEPT !.pc = "returned", !.calls = @ + 1,
                              !.request = request,
                              !.resp = [status |-> "skipped", author_id |-> "none"]]
          \/ /\ request.n > 0
             /\ upsert' = [upsert EXCEPT !.pc = "read", !.calls = @ + 1,
                              !.request = request,
                              !.existed = authors.exists,
                              !.existing_count = authors.articleCount,
                              !.resp = NoUpsertResp]
          \/ \* the read raises
             /\ request.n > 0
             /\ upsert' = [upsert EXCEPT !.pc = "returned", !.calls = @ + 1,
                              !.request = request,
                              !.resp = [status |-> "failed", author_id |-> "none"]]
    /\ UNCHANGED <<authors, imported, statusResp, logResp>>
    /\ Unchanged_pipeline

\* from the read to the return: doc_ref.set and the response
upsert_author_set ==
    /\ upsert.pc = "read"
    /\ \/ /\ authors' = UpsertSet(authors, upsert.request, upsert.existed,
                                  upsert.existing_count)
          /\ upsert' = [upsert EXCEPT !.pc = "returned",
                           !.resp = [status |-> UpsertStatus(upsert.existed),
                                     author_id |-> AuthorId]]
       \/ \* the write raises
          /\ upsert' = [upsert EXCEPT !.pc = "returned",
                           !.resp = [status |-> "failed", author_id |-> "none"]]
          /\ UNCHANGED authors
    /\ UNCHANGED <<imported, statusResp, logResp>>
    /\ Unchanged_pipeline

upsert_author == upsert_author_get \/ upsert_author_set

\* the import script writes the row of the feed with merge=True
import_feeds ==
    /\ imported < MaxImports
    /\ imported' = imported + 1
    /\ \E categories \in ImportCategories :
          authors' = [exists |-> TRUE, articleCount |-> 0, categories |-> categories]
    /\ UNCHANGED <<upsert, statusResp, logResp>>
    /\ Unchanged_pipeline

\* ---- GET /ingestion/{run_id} ----
NoStatusResp == [code |-> 0, run_id |-> 0, status |-> "none", is_successful |-> "null"]

\* what evaluate_run_success reads of a persisted run document
DocRunData(doc) == RunData(TRUE, doc.stats, doc.hasDuration, doc.duration)

\* mutant: the evaluation is made for every status
IsSuccessful_every_status(doc) ==
    IF evaluate_run_success(DocRunData(doc)) THEN "true" ELSE "false"

\* is_successful of the response: evaluated for the terminal statuses only
IsSuccessful(doc) ==
    IF doc.status \in TerminalStatuses
    THEN IF evaluate_run_success(DocRunData(doc)) THEN "true" ELSE "false"
    ELSE "null"

get_ingestion_status(run_id) ==
    /\ statusResp' =
          IF ~docs[run_id].exists
          THEN [code |-> 404, run_id |-> run_id, status |-> "none",
                is_successful |-> "null"]
          ELSE [code |-> 200, run_id |-> run_id, status |-> docs[run_id].status,
                is_successful |-> IsSuccessful(docs[run_id])]
    /\ UNCHANGED <<authors, upsert, imported, logResp>>
    /\ Unchanged_pipeline

\* ---- the log_ingestion_run tool on the ingestion_runs collection ----
MaxLogCalls == 2

NoLogResp == [code |-> 0, calls |-> 0]

\* a request: status, started_at and completed_at parsed from ISO 8601
\* (completed_at 0 - 1 for None), and the counters of its stats
LogRequest(status, started_at, completed_at, n) ==
    [status |-> status, started_at |-> started_at, completed_at |-> completed_at,
     sources_checked |-> n, articles_fetched |-> n, articles_stored |-> n]
LogRequests ==
    {LogRequest(status, started_at, completed_at, 1) :
        status \in {"running", "completed"},
        started_at \in {0, TickStep},
        completed_at \in {0 - 1, MaxTime}}

\* set(doc_data, merge=True) on an existing run document
LogSet(doc, request) ==
    LET logged == [doc EXCEPT
                     !.status = request.status,
                     !.startedAt = request.started_at,
                     !.startedAtKind = "timestamp",
                     !.stats = [@ EXCEPT
                                  !.has = @ \cup {"sourcesChecked", "articlesFetched",
                                                  "articlesStored", "articlesIngested"},
                                  !.sourcesChecked = request.sources_checked,
                                  !.articlesFetched = request.articles_fetched,
                                  !.articlesStored = request.articles_stored]]
    IN  IF request.completed_at >= 0
        THEN [logged EXCEPT
                !.hasCompletedAt = TRUE, !.completedAtWrites = @ + 1,
                !.hasDuration = TRUE, !.durationWrites = @ + 1,
                !.duration = request.completed_at - request.started_at]
        ELSE logged

\* run_id names a run the trigger created
log_ingestion_run(run_id) ==
    /\ docs[run_id].exists
    /\ logResp.calls < MaxLogCalls
    /\ \E request \in LogRequests :
          \/ /\ docs' = [docs EXCEPT ![run_id] = LogSet(docs[run_id], request)]
             /\ logResp' = [code |-> 200, calls |-> logResp.calls + 1]
          \/ \* the write raises
             /\ logResp' = [code |-> 500, calls |-> logResp.calls + 1]
             /\ UNCHANGED docs
    /\ UNCHANGED <<now, pipe, nextId, lastResp, evalIn, evalOut, articles, store,
                   authors, upsert, imported, statusResp>>

Tick ==
    /\ nextId > 1
    /\ now + TickStep <= MaxTime
    /\ now' = now + TickStep
    /\ UNCHANGED <<docs, pipe, nextId, lastResp, evalIn, evalOut, articles, store, toolVars>>

InitTools ==
    /\ authors = NoAuthor
    /\ upsert = NoUpsert
    /\ imported = 0
    /\ statusResp = NoStatusResp
    /\ logResp = NoLogResp

Init ==
    /\ now = 0
    /\ docs = [r \in RunIds |-> NoDoc]
    /\ pipe = [r \in RunIds |-> NoPipe]
    /\ nextId = 1
    /\ lastResp = NoResp
    /\ evalIn = NoEval
    /\ evalOut = "none"
    /\ articles = NoArticles
    /\ store = NoStore
    /\ InitTools

Next ==
    \/ trigger_ingestion(MaxRuns)
    \/ \E r \in RunIds : run_ingestion_pipeline(r, SourceChoices, ArticleChoices)
    \/ Tick

Spec == Init /\ [][Next]_vars

\* ---- one run over a catalog larger than the semaphore ----
NextFetch ==
    \/ trigger_ingestion(1)
    \/ \E r \in RunIds : run_ingestion_pipeline(r, FetchSourceChoices, ArticleChoices)

SpecFetch == Init /\ [][NextFetch]_vars

\* ---- one run over a feed that fills many store chunks ----
NextChunks ==
    \/ trigger_ingestion(1)
    \/ \E r \in RunIds : run_ingestion_pipeline(r, ChunkSourceChoices, ChunkArticleChoices)

SpecChunks == Init /\ [][NextChunks]_vars

\* ---- store_articles calls against the articles collection ----
NextStorage == store_articles

SpecStorage == Init /\ [][NextStorage]_vars

\* ---- upsert_author calls and an import on one author record ----
NextAuthors == upsert_author \/ import_feeds

SpecAuthors == Init /\ [][NextAuthors]_vars

\* ---- the guard over a stored active run of any startedAt shape ----
StartedAtKinds == {"timestamp", "other", "null", "absent"}

\* a run document found in the collection, written at time 0 by any writer
StoredRun(status, kind) ==
    [InitialDoc(0, DefaultRequest) EXCEPT
        !.status = status,
        !.phase = IF status = "accepted" THEN "initializing" ELSE "loading_sources",
        !.startedAtKind = kind]

InitGuard ==
    /\ now = 0
    /\ \E status \in ActiveStatuses, kind \in StartedAtKinds :
          docs = [r \in RunIds |-> IF r = 1 THEN StoredRun(status, kind) ELSE NoDoc]
    /\ pipe = [r \in RunIds |-> NoPipe]
    /\ nextId = 2
    /\ lastResp = NoResp
    /\ evalIn = NoEval
    /\ evalOut = "none"
    /\ articles = NoArticles
    /\ store = NoStore
    /\ InitTools

NextGuard ==
    \/ trigger_ingestion(MaxRuns)
    \/ \E r \in RunIds : run_ingestion_pipeline(r, SourceChoices, ArticleChoices)
    \/ Tick

SpecGuard == InitGuard /\ [][NextGuard]_vars

\* ---- runs whose writes succeed, scheduled by the event loop ----
\* a step of the task of run r in which no write to the run document raises
pipeline_step(r) ==
    \/ pipeline_start(r)
    \/ pipeline_load_sources(r, SourceChoices)
    \/ fetch_acquire(r)
    \/ fetch_return(r, ArticleChoices)
    \/ pipeline_aggregate(r)
    \/ store_chunk(r)
    \/ pipeline_store_done(r)
    \/ upsert_author_call(r)
    \/ pipeline_final(r)

NextLive ==
    \/ trigger_ingestion(MaxRuns)
    \/ \E r \in RunIds : pipeline_step(r)
    \/ Tick

\* asyncio.create_task: the event loop runs every task it holds, and every
\* awaited sub-call returns or times out
SpecLive ==
    Init /\ [][NextLive]_vars /\ \A r \in RunIds : WF_vars(pipeline_step(r))

\* ---- one run and its readers ----
NextStatus ==
    \/ trigger_ingestion(1)
    \/ \E r \in RunIds : run_ingestion_pipeline(r, SourceChoices, ArticleChoices)
    \/ Tick
    \/ \E run_id \in RunIds : get_ingestion_status(run_id)

SpecStatus == Init /\ [][NextStatus]_vars

\* ---- one run and the log tool writing to its document ----
NextLog ==
    \/ trigger_ingestion(1)
    \/ \E r \in RunIds : run_ingestion_pipeline(r, SourceChoices, ArticleChoices)
    \/ Tick
    \/ \E run_id \in RunIds : log_ingestion_run(run_id)

SpecLog == Init /\ [][NextLog]_vars

\* ---- evaluate_run_success applied to arbitrary persisted records ----
StoredChoices == {0, 1, 10}
CheckedChoices == {0, 1, 2, 10, 100}
FailedChoices == {0, 1, 5, 49, 50}
DurationChoices == {0 - 5, 0, MaxSuccessDuration, MaxSuccessDuration + 1}

InitEval ==
    /\ now = 0
    /\ docs = [r \in RunIds |-> NoDoc]
    /\ pipe = [r \in RunIds |-> NoPipe]
    /\ nextId = 1
    /\ lastResp = NoResp
    /\ evalOut = "none"
    /\ articles = NoArticles
    /\ store = NoStore
    /\ InitTools
    /\ \E keys \in SUBSET {"articlesStored", "sourcesChecked", "sourcesFailed"},
          stored \in StoredChoices, checked \in CheckedChoices,
          failed \in FailedChoices, hasStats \in BOOLEAN, hasDuration \in BOOLEAN,
          duration \in DurationChoices :
         /\ ("articlesStored" \notin keys => stored = 0)
         /\ ("sourcesChecked" \notin keys => checked = 0)
         /\ ("sourcesFailed" \notin keys => failed = 0)
         /\ (~hasStats => keys = {})
         /\ (~hasDuration => duration = 0)
         /\ evalIn = RunData(hasStats, MkStats(keys, checked, failed, 0, stored, 0),
                             hasDuration, duration)

Evaluate ==
    /\ evalOut = "none"
    /\ evalOut' = IF evaluate_run_success(evalIn) THEN "true" ELSE "false"
    /\ UNCHANGED <<now, docs, pipe, nextId, lastResp, evalIn, articles, store, toolVars>>

NextEval == Evaluate

SpecEval == InitEval /\ [][NextEval]_vars

\* ======================= claims =======================

\* a step that handles one POST /ingestion
TriggerStep == lastResp'.seq # lastResp.seq

\* the age, at time t, of run r
Age(r, t) == t - docs[r].startedAt

\* the active runs none of which started later
MostRecentActive ==
    {r \in RunIds :
        /\ docs[r].exists /\ docs[r].status \in {"accepted", "running"}
        /\ \A q \in RunIds :
             (docs[q].exists /\ docs[q].status \in {"accepted", "running"})
                => docs[q].startedAt <= docs[r].startedAt}

\* C1: in every reachable state at most one ingestion run has status accepted
\* or running.
C1_AtMostOneActive ==
    Cardinality({r \in RunIds : docs[r].exists /\ docs[r].status \in {"accepted", "running"}}) <= 1

\* C2: a POST /ingestion handled while the most recently started active run is
\* younger than 600 seconds is answered 409 with that run's id and poll_url,
\* creates no run document, changes no run document and starts no pipeline.
C2_RejectWhenActive ==
    [][(TriggerStep /\ \E r \in MostRecentActive : Age(r, now) < 600)
         => /\ lastResp'.code = 409
            /\ lastResp'.run_id \in MostRecentActive
            /\ lastResp'.poll_url.prefix = "/trigger/ingestion/"
            /\ lastResp'.poll_url.id = lastResp'.run_id
            /\ docs' = docs
            /\ pipe' = pipe
            /\ nextId' = nextId]_vars

\* C2 witness: a request was rejected with 409 while a run was running.
C2_Witness ==
    /\ lastResp.code = 409
    /\ docs[lastResp.run_id].status = "running"
    /\ now - docs[lastResp.run_id].startedAt = 300

StatusRank(status) ==
    CASE status = "accepted" -> 0
      [] status = "running" -> 1
      [] OTHER -> 2

\* C4: the persisted status of a run only moves accepted -> running -> terminal,
\* never backward, and never changes once it is terminal.
C4_StatusMonotonic ==
    [][\A r \in RunIds :
          docs[r].exists =>
             /\ StatusRank(docs'[r].status) >= StatusRank(docs[r].status)
             /\ (docs[r].status \in {"completed", "completed_with_errors", "failed"}
                   => docs'[r].status = docs[r].status)]_vars

\* C5: the status written with phase done is failed iff errors were collected
\* and nothing was stored, completed_with_errors iff errors were collected and
\* something was stored, completed iff no error was collected; a run persisted
\* as completed has no errors.
C5_FinalStatusDerivation ==
    \A r \in RunIds :
       /\ (docs[r].exists /\ docs[r].phase = "done") =>
             /\ docs[r].status = "failed"
                   <=> (Len(docs[r].errors) > 0 /\ docs[r].stats.articlesStored = 0)
             /\ docs[r].status = "completed_with_errors"
                   <=> (Len(docs[r].errors) > 0 /\ docs[r].stats.articlesStored >= 1)
             /\ docs[r].status = "completed" <=> Len(docs[r].errors) = 0
       /\ (docs[r].exists /\ docs[r].status = "completed") => docs[r].errors = <<>>

\* C5 witness: a run finished as completed although nothing was stored.
C5_Witness ==
    \E r \in RunIds : /\ docs[r].phase = "done" /\ docs[r].status = "completed"
                      /\ docs[r].stats.articlesStored = 0
                      /\ docs[r].stats.articlesFetched = 1

\* a counter of the evaluated record, 0 when it is absent
EvalCounter(key) ==
    IF evalIn.hasStats /\ key \in evalIn.stats.has THEN evalIn.stats[key] ELSE 0

CountOf(errors, kind) == Cardinality({k \in DOMAIN errors : errors[k] = kind})

\* C7: with K of N fetches failing, the fetch phase ends with sourcesFailed = K,
\* K error entries, the articles of the N-K other sources, and the run in the
\* storing_articles phase.
C7_FailureIsolation ==
    \A r \in RunIds :
       pipe[r].pc = "storing" =>
          /\ pipe[r].okResults + pipe[r].errResults = pipe[r].sources
          /\ pipe[r].sources_failed = pipe[r].errResults
          /\ CountOf(pipe[r].errors, "fetch") = pipe[r].errResults
          /\ pipe[r].total_fetched = pipe[r].returned
          /\ docs[r].stats.sourcesFailed = pipe[r].errResults
          /\ docs[r].stats.articlesFetched = pipe[r].returned
          /\ docs[r].phase = "storing_articles"

\* C7 witness: a run is storing articles after some fetches failed and others
\* returned articles.
C7_Witness ==
    \E r \in RunIds : /\ pipe[r].pc = "storing"
                      /\ pipe[r].errResults = 4
                      /\ pipe[r].okResults = 7
                      /\ pipe[r].total_fetched = 5

\* C8: at most 10 fetch_single_feed calls are in flight at any moment.
C8_BoundedInFlight == \A r \in RunIds : pipe[r].inflight <= 10

\* C8 witness: 10 fetches in flight while another source waits.
C8_Witness == \E r \in RunIds : pipe[r].inflight = 10 /\ pipe[r].waiting > 0

\* C9: the phase storing_articles is written, and store_articles is called,
\* only after every fetch has finished; the stats then count every loaded
\* source exactly once.
C9_JoinBarrier ==
    \A r \in RunIds :
       /\ (pipe[r].waiting > 0 \/ pipe[r].inflight > 0) =>
             /\ docs[r].phase \notin {"storing_articles", "upserting_authors", "done"}
             /\ pipe[r].i = 0 /\ pipe[r].articles_stored = 0
       /\ pipe[r].pc = "storing" =>
             /\ docs[r].stats.sourcesChecked = pipe[r].sources
             /\ pipe[r].okResults + pipe[r].errResults = pipe[r].sources
             /\ docs[r].stats.sourcesFailed = pipe[r].errResults

\* C9 witness: a store_articles call was made for a catalog larger than the
\* semaphore.
C9_Witness ==
    \E r \in RunIds : /\ pipe[r].pc = "storing" /\ pipe[r].i > 0
                      /\ pipe[r].sources > 10

\* C10: an accepted POST /ingestion writes the run document (accepted,
\* initializing, empty stats, empty errors) before the pipeline has written
\* to it, and answers 202 with the run_id, status accepted and a poll_url that
\* contains the run_id.
C10_AcceptedRun ==
    [][(TriggerStep /\ lastResp'.code = 202)
         => LET id == lastResp'.run_id
            IN  /\ ~docs[id].exists
                /\ pipe[id].pc = "none"
                /\ docs'[id].exists
                /\ docs'[id].status = "accepted"
                /\ docs'[id].phase = "initializing"
                /\ docs'[id].stats.has = {}
                /\ docs'[id].errors = <<>>
                /\ pipe'[id].pc = "created"
                /\ lastResp'.status = "accepted"
                /\ lastResp'.run_id = nextId
                /\ lastResp'.poll_url.id = id]_vars

\* C10 witness: a run was just accepted and its pipeline has not started.
C10_Witness ==
    /\ lastResp.code = 202
    /\ docs[lastResp.run_id].status = "accepted"
    /\ docs[lastResp.run_id].phase = "initializing"
    /\ pipe[lastResp.run_id].pc = "created"
    /\ now = 0

\* C11: a run over an empty catalog is written failed at phase loading_sources
\* with completedAt, duration and one error, and its pipeline is over: nothing
\* was fetched, stored or upserted and the pipeline writes to the run no more.
C11_EmptyCatalogStops ==
    \A r \in RunIds :
       (docs[r].exists /\ docs[r].errors = <<"no_sources">>) =>
          /\ docs[r].status = "failed"
          /\ docs[r].phase = "loading_sources"
          /\ docs[r].hasCompletedAt /\ docs[r].hasDuration
          /\ docs[r].stats.has = {}
          /\ pipe[r].pc = "finished"
          /\ pipe[r].okResults + pipe[r].errResults + pipe[r].inflight = 0
          /\ pipe[r].chunks = 0
          /\ pipe[r].authors_upserted = 0

\* C11 witness: a run over an empty catalog failed 300 seconds after it began.
C11_Witness ==
    \E r \in RunIds : /\ docs[r].errors = <<"no_sources">>
                      /\ docs[r].status = "failed"
                      /\ docs[r].duration = 300
                      /\ pipe[r].pc = "finished"

\* C12: a pipeline whose step raised attempts the write that marks the run
\* failed with the exception message and then is over; the task never ends
\* with an exception, whether that write succeeded or not.
C12_ExceptionSwallowed ==
    \A r \in RunIds :
       /\ pipe[r].pc # "crashed"
       /\ pipe[r].pc = "except" => docs[r].errors # <<"pipeline_exception">>
       /\ (docs[r].exists /\ docs[r].errors = <<"pipeline_exception">>) =>
             /\ docs[r].status = "failed"
             /\ docs[r].hasCompletedAt /\ docs[r].hasDuration
             /\ pipe[r].pc = "finished"

\* C12 witness: the failure write failed too; the task is over and the run is
\* still persisted as running.
C12_Witness ==
    \E r \in RunIds : /\ pipe[r].pc = "finished"
                      /\ docs[r].status = "running"
                      /\ docs[r].phase = "storing_articles"

\* C13: when the store loop of a run is over, every chunk of 200 of the fetched
\* articles was sent to store_articles, whatever happened to earlier chunks.
C13_EveryChunkAttempted ==
    \A r \in RunIds :
       pipe[r].pc = "upserting" => pipe[r].chunks * 200 >= pipe[r].total_fetched

\* C14: a run that fetched articles and whose store_articles calls persisted
\* nothing ends with status failed.
C14_StoreOutageFails ==
    \A r \in RunIds :
       (docs[r].exists /\ docs[r].phase = "done"
          /\ docs[r].stats.articlesFetched > 0 /\ docs[r].stats.articlesStored = 0)
             => docs[r].status = "failed"

\* C15: completedAt and duration are each written at most once per run.
C15_CompletionWrittenOnce ==
    \A r \in RunIds :
       /\ docs[r].completedAtWrites <= 1
       /\ docs[r].durationWrites <= 1

PhaseRank(phase) ==
    CASE phase = "initializing" -> 0
      [] phase = "loading_sources" -> 1
      [] phase = "fetching_feeds" -> 2
      [] phase = "storing_articles" -> 3
      [] phase = "upserting_authors" -> 4
      [] phase = "done" -> 5
      [] OTHER -> 0 - 1

\* the phase the pipeline of a run wrote last, from its position
PipelinePhase(pc) ==
    CASE pc = "loading" -> "loading_sources"
      [] pc = "fetching" -> "fetching_feeds"
      [] pc = "storing" -> "storing_articles"
      [] pc = "upserting" -> "upserting_authors"
      [] OTHER -> "initializing"

\* the rank of the last phase of the chain persisted for run r
LastChainRank(r) ==
    IF docs[r].phase = "stale_cleanup" THEN PhaseRank(PipelinePhase(pipe[r].pc))
    ELSE PhaseRank(docs[r].phase)

C17_ErrorsCapped == \A r \in RunIds : Len(docs[r].errors) <= 50

\* C17 witness: a finished run with 50 persisted errors, all of them failed
\* store chunks.
C17_Witness ==
    \E r \in RunIds : /\ docs[r].phase = "done"
                      /\ Len(docs[r].errors) = 50
                      /\ docs[r].errors[50] = "store_status"
                      /\ docs[r].stats.articlesStored = 0

\* the articles of the batch the next store_articles_batch step commits
NextBatch ==
    SubSeq(store.unique_articles, store.i + 1,
           IF store.i + 500 < Len(store.unique_articles)
           THEN store.i + 500 ELSE Len(store.unique_articles))

\* a step that commits one batch
BatchStep == store.pc = "batches" /\ store'.pc = "batches" /\ store'.i # store.i

\* the documents of a collection that carry a given url
DocsOf(coll, url) == {id \in DOMAIN coll : coll[id].url = url}

\* the key at which the document of a url is expected
KeyOf(url) == [prefix |-> "art-", hash |-> url]

\* C18: only the commit of a batch changes the collection; after it every
\* document sits at the key of its own URL, so no URL has two documents, and
\* there is a document for each URL the batch stores;
\* a URL stored before gets no new document, is counted in stored_count, and
\* its document takes the fields of the new write, keeping the earlier value
\* of a field the new write does not give; no other document changes.
C18_OneDocumentPerUrl ==
    [][/\ ~BatchStep => articles' = articles
       /\ BatchStep =>
             LET stored == {k \in DOMAIN NextBatch : ~NextBatch[k].unwritable}
                 keys == {KeyOf(NextBatch[k].url) : k \in stored}
             IN  /\ \A id \in DOMAIN articles' : id = KeyOf(articles'[id].url)
                 /\ store'.stored_count = store.stored_count + Cardinality(stored)
                 /\ DOMAIN articles' = DOMAIN articles \cup keys
                 /\ \A k \in stored :
                       LET a == NextBatch[k]
                           id == KeyOf(a.url)
                       IN  /\ articles'[id].url = a.url
                           /\ articles'[id].title = a.title
                           /\ articles'[id].run_id = store.run_id
                           /\ articles'[id].stored_at = store.calls
                           /\ a.summary # "None" => articles'[id].summary = a.summary
                           /\ (a.summary = "None" /\ id \in DOMAIN articles) =>
                                 articles'[id].summary = articles[id].summary
                 /\ \A id \in DOMAIN articles \ keys : articles'[id] = articles[id]]_vars

\* C18 witness: a URL stored by run-1 was stored again by run-2 without a
\* summary; the one document has the new title and run and the old summary.
C18_Witness ==
    /\ store.pc = "idle" /\ store.calls = 2
    /\ store.resp.stored_count = 1
    /\ Cardinality(DOMAIN articles) = 1
    /\ \E id \in DOMAIN articles :
          /\ articles[id].run_id = "run-2" /\ articles[id].stored_at = 2
          /\ articles[id].title = "t2" /\ articles[id].summary = "s1"

\* a step in which store_articles answers
ReturnStep == store.pc = "batches" /\ store'.pc = "idle"

\* C19: a store_articles call none of whose articles failed reports as
\* duplicates_skipped the input length minus the number of distinct input
\* URLs, and has written for each distinct input URL one document, that of
\* the URL's first occurrence.
C19_DedupAccounting ==
    [][(ReturnStep /\ ~store'.resp.error /\ store'.resp.failed_count = 0) =>
          LET request == store.request
              urls == {request[k].url : k \in DOMAIN request}
              first(u) == CHOOSE k \in DOMAIN request :
                             /\ request[k].url = u
                             /\ \A j \in 1..(k - 1) : request[j].url # u
          IN  /\ store'.resp.duplicates_skipped = Len(request) - Cardinality(urls)
              /\ \A u \in urls :
                    /\ Cardinality(DocsOf(articles, u)) = 1
                    /\ \A id \in DocsOf(articles, u) :
                          /\ articles[id].stored_at = store.calls
                          /\ articles[id].title = request[first(u)].title]_vars

\* C20: when store_articles has answered with the total-failure result, no
\* document of the collection was written by that call.
C20_TotalFailureStoresNothing ==
    (store.pc = "idle" /\ store.resp.error) =>
       /\ store.resp.stored_count = 0
       /\ \A id \in DOMAIN articles : articles[id].stored_at # store.calls

\* the pipeline task of run r is between its first write and its last
Executing(r) == pipe[r].pc \in {"loading", "fetching", "storing", "upserting", "except"}

\* C27: at most one pipeline task is between its first write and its terminal
\* write.
C27_OnePipelineExecuting ==
    Cardinality({r \in RunIds : Executing(r)}) <= 1

\* C29: a run persisted as completed or completed_with_errors has phase done,
\* completedAt and duration; a run persisted as accepted has phase
\* initializing, empty stats and no errors; persisted stats never count more
\* failed sources than sources, nor more stored articles than fetched ones.
C29_ObservableShape ==
    \A r \in RunIds :
       docs[r].exists =>
          /\ docs[r].status \in {"completed", "completed_with_errors"} =>
                /\ docs[r].phase = "done"
                /\ docs[r].hasCompletedAt /\ docs[r].hasDuration
          /\ docs[r].status = "accepted" =>
                /\ docs[r].phase = "initializing"
                /\ docs[r].stats.has = {}
                /\ docs[r].errors = <<>>
          /\ docs[r].stats.sourcesFailed <= docs[r].stats.sourcesChecked
          /\ docs[r].stats.articlesStored <= docs[r].stats.articlesFetched



\* ---- the author record ----
\* a call of upsert_author starts
CallStep == upsert'.calls = upsert.calls + 1

\* a call that read the record ends, with the write or with its failure
WriteStep == upsert.pc = "read" /\ upsert'.pc = "returned"

\* a call ends with a written record
UpsertedStep == WriteStep /\ upsert'.resp.status \in {"created", "updated"}

\* C21: articleCount of the author record never decreases, and every successful
\* upsert_author adds exactly its batch size to the value stored before it,
\* whatever upserts and import writes to the same key come before or between.
C21_ArticleCountCumulative ==
    [][/\ authors'.articleCount >= authors.articleCount
       /\ UpsertedStep =>
             authors'.articleCount = authors.articleCount + upsert.request.n]_vars

\* C22: while only upsert_author has written the record, every successful
\* upsert leaves the categories held before it in place and adds those of its
\* batch, so that the record holds the union of all batches.
C22_CategoriesUnion ==
    [][UpsertedStep /\ imported = 0 =>
          authors'.categories = authors.categories \cup Categories(upsert.request)]_vars

\* C23: a call with no articles answers skipped and neither reads nor writes
\* the record; a call with articles answers created exactly when no record
\* existed at the key when it was made, updated exactly when one did, and
\* failed, naming no author and leaving the record as it was, when the read or
\* the write raised.
C23_UpsertStatus ==
    [][/\ CallStep /\ upsert'.request.n = 0 =>
             /\ upsert'.pc = "returned"
             /\ upsert'.resp = [status |-> "skipped", author_id |-> "none"]
             /\ upsert'.existed = upsert.existed
             /\ upsert'.existing_count = upsert.existing_count
             /\ authors' = authors
       /\ CallStep /\ upsert'.request.n > 0 =>
             /\ authors' = authors
             /\ \/ /\ upsert'.pc = "read"
                   /\ upsert'.existed = authors.exists
                \/ /\ upsert'.pc = "returned"
                   /\ upsert'.resp = [status |-> "failed", author_id |-> "none"]
       /\ WriteStep =>
             /\ upsert'.resp.status \in {"created", "updated", "failed"}
             /\ upsert'.resp.status = "created" =>
                   /\ ~upsert.existed
                   /\ upsert'.resp.author_id = AuthorId
                   /\ authors'.exists
             /\ upsert'.resp.status = "updated" =>
                   /\ upsert.existed
                   /\ upsert'.resp.author_id = AuthorId
                   /\ authors'.exists
             /\ upsert'.resp.status = "failed" =>
                   /\ upsert'.resp.author_id = "none"
                   /\ authors' = authors]_vars

\* a second call found the record of the first and answered updated
C23_Witness ==
    /\ upsert.resp.status = "updated"
    /\ upsert.calls = 2
    /\ authors.articleCount = 8
    /\ imported = 0

\* ---- the guard and the shape of startedAt ----
\* the run the guard's query returns has a startedAt that gives no age
UnreadableReturned(r) ==
    /\ NewestActive(docs) = {r}
    /\ docs[r].startedAtKind \in {"other", "null"}

\* C24: when the run returned by the guard's query has a startedAt that cannot
\* be read as elapsed seconds, the trigger writes failed and stale_cleanup to
\* that run and accepts the new run.
C24_UnreadableTreatedStale ==
    [][\A r \in RunIds :
          TriggerStep /\ UnreadableReturned(r) =>
             /\ docs'[r].status = "failed"
             /\ docs'[r].phase = "stale_cleanup"
             /\ lastResp'.code = 202]_vars

\* ---- the fields fixed at creation ----
\* C25: once a run document exists, its startedAt and the trigger,
\* timeWindowHours and maxItemsPerSource of its request are never changed by a
\* later write, of the pipeline, of the guard or of the log_ingestion_run tool.
C25_CreationFieldsImmutable ==
    [][\A r \in RunIds :
          docs[r].exists =>
             /\ docs'[r].startedAt = docs[r].startedAt
             /\ docs'[r].startedAtKind = docs[r].startedAtKind
             /\ docs'[r].request = docs[r].request]_vars

\* ---- GET /ingestion/{run_id} ----
\* a GET is answered
GetStep == statusResp' # statusResp

\* C26: GET answers 404 for a run_id without a document; for a stored run it
\* answers 200 with is_successful null while the status is accepted or running
\* and the value of evaluate_run_success on the stored record once the status
\* is completed, completed_with_errors or failed; it writes nothing.
C26_StatusRead ==
    [][GetStep =>
          /\ docs' = docs
          /\ LET run_id == statusResp'.run_id
                 doc == docs[run_id]
             IN  IF ~doc.exists
                 THEN statusResp'.code = 404
                 ELSE /\ statusResp'.code = 200
                      /\ statusResp'.status = doc.status
                      /\ doc.status \in {"accepted", "running"} =>
                            statusResp'.is_successful = "null"
                      /\ doc.status \in {"completed", "completed_with_errors", "failed"} =>
                            statusResp'.is_successful =
                               IF evaluate_run_success(DocRunData(doc))
                               THEN "true" ELSE "false"]_vars

\* a completed run was read and reported successful
C26_Witness ==
    /\ statusResp.code = 200
    /\ statusResp.status = "completed"
    /\ statusResp.is_successful = "true"

\* C28: GET never reports a run it shows as failed to be successful.
C28_FailedNotSuccessful ==
    statusResp.status = "failed" => statusResp.is_successful = "false"

\* ---- termination ----
\* C30: when no write to the run document raises and every sub-call returns,
\* every accepted run is brought by its own task to the end of the pipeline
\* with a terminal status persisted.
C30_EveryRunTerminates ==
    \A r \in RunIds :
       docs[r].exists ~>
          (pipe[r].pc = "finished" /\ docs[r].status \in TerminalStatuses)

\* the task of a run reclaimed as stale ended by itself, after the reclaim
C30_Witness ==
    \E r \in RunIds :
       /\ pipe[r].pc = "finished"
       /\ docs[r].completedAtWrites = 2
       /\ docs[r].status \in TerminalStatuses
====
